---- MODULE Spec2Model ----
(***************************************************************************)
(* Order payment reconciliation of Coffee-Payments-Server: the Order rows, *)
(* the Celery task check_pending_payments, PaymentStatusService, the       *)
(* Yookassa webhook, initiate_payment and process_payment_flow.            *)
(* Time is counted in ticks; every handler reads the clock where the code  *)
(* calls timezone.now().                                                   *)
(***************************************************************************)
EXTENDS Integers, Sequences, FiniteSets, TLC

\* ---------------------------------------------------------------- bounds
MaxTime == 4
MaxAttempts == 2
MaxMake == 2

\* configuration values read from django.conf.settings, in ticks
FAST_TRACK_LIMIT_S == 1
FAST_TRACK_INTERVAL_S == 1
SLOW_TRACK_INTERVAL_S == 2
PAYMENT_ATTEMPTS_LIMIT == 1
ORDER_EXPIRATION_MINUTES == 3

\* ---------------------------------------------------------------- values
OrderIds == {1}
NoTime == -1
NoRef == "null"
PaymentIds == {"P1", "P2"}
NoDesc == "null"
DescMakeFailed == "make_command_failed"
DescManualConfirm == "requires_manual_confirmation"
DescCheckFailed == "could_not_verify_payment"

Statuses ==
  {"created", "pending", "paid", "not_paid", "make_pending", "manual_make",
   "successful", "failed", "make_failed"}

TerminalStatuses == {"successful", "not_paid", "failed", "make_failed", "manual_make"}

CheckTypes == {"polling", "webhook", "none"}
NoCheckType == "null"

ProviderStatuses == {"pending", "succeeded", "canceled", "waiting_for_capture", "unknown"}

\* an Order row; status "absent" stands for no row with that id
AbsentOrder ==
  [status |-> "absent", status_check_type |-> NoCheckType,
   payment_reference_id |-> NoRef, expires_at |-> NoTime,
   payment_started_at |-> NoTime, next_check_at |-> NoTime,
   last_check_at |-> NoTime, check_attempts |-> 0,
   failed_presentation_desc |-> NoDesc]

\* Order.save() of a new row: expires_at = now + ORDER_EXPIRATION_MINUTES
NewOrder(t) ==
  [AbsentOrder EXCEPT !.status = "created",
                      !.expires_at = t + ORDER_EXPIRATION_MINUTES]

\* a row of an order in flight, as stored for a payment that was started at
\* time 0 and is due for its first check
InFlightOrder(ct) ==
  [AbsentOrder EXCEPT !.status = "pending",
                      !.status_check_type = ct,
                      !.payment_reference_id = "P1",
                      !.expires_at = ORDER_EXPIRATION_MINUTES,
                      !.payment_started_at = 0,
                      !.next_check_at = FAST_TRACK_INTERVAL_S]

\* an expiration test that grants one more tick
is_expired_late(ord, t) == t > ord.expires_at + 1

\* Order.is_expired
is_expired(ord, t) == t > ord.expires_at

VARIABLES
  now,        \* the clock
  orders,     \* the stored Order rows, by id
  device,     \* device.payment_scenario of each order's device
  creds,      \* whether the merchant has credentials for the scenario
  credType,   \* MerchantCredentials.status_check_type of that record
  sched,      \* check_pending_payments: position, run time, loaded rows
  wh,         \* yookassa_payment_result_webhook: position and payload
  resp,       \* the last HTTP answer of each order's handlers
  makeCalls,  \* send_make_command invocations per order
  ip          \* initiate_payment: position and the Order instance it loaded

vars == <<now, orders, device, creds, credType, sched, wh, resp, makeCalls, ip>>

\* ------------------------------------------------- PaymentStatusService
TimeSincePaymentStarted(ord, t) ==
  IF ord.payment_started_at = NoTime THEN 0 ELSE t - ord.payment_started_at

\* the fast-track test with the boundary value left out
is_fast_track_exclusive(ord, t) ==
  TimeSincePaymentStarted(ord, t) < FAST_TRACK_LIMIT_S

is_fast_track(ord, t) == TimeSincePaymentStarted(ord, t) <= FAST_TRACK_LIMIT_S

\* the pending branch rescheduling every order at the fast interval
NextCheckPendingFastOnly(ord, t) == t + FAST_TRACK_INTERVAL_S

NextCheckPending(ord, t) ==
  IF is_fast_track(ord, t) THEN t + FAST_TRACK_INTERVAL_S
                           ELSE t + SLOW_TRACK_INTERVAL_S

SucceededFast(ord) ==
  [ord EXCEPT !.status = "paid", !.next_check_at = NoTime]

\* the slow-track branch without next_check_at = None
SucceededSlowKeepsCheck(ord) == [ord EXCEPT !.status = "manual_make"]

SucceededSlow(ord) ==
  [ord EXCEPT !.status = "manual_make", !.next_check_at = NoTime]

\* the canceled branch without next_check_at = None
CanceledKeepsCheck(ord) == [ord EXCEPT !.status = "not_paid"]

Canceled(ord) ==
  [ord EXCEPT !.status = "not_paid", !.next_check_at = NoTime]

\* the waiting_for_capture branch without next_check_at = None
WaitingForCaptureKeepsCheck(ord) ==
  [ord EXCEPT !.status = "failed", !.failed_presentation_desc = DescManualConfirm]

\* the waiting_for_capture branch: the payment needs a manual confirmation
WaitingForCapture(ord) ==
  [ord EXCEPT !.status = "failed",
              !.failed_presentation_desc = DescManualConfirm,
              !.next_check_at = NoTime]

\* process_payment_status treating every status it does not know as pending
process_payment_status_default_pending(ord, payment_status, t) ==
  CASE payment_status = "succeeded" ->
         IF is_fast_track(ord, t) THEN SucceededFast(ord) ELSE SucceededSlow(ord)
    [] payment_status = "canceled" -> Canceled(ord)
    [] payment_status = "waiting_for_capture" -> WaitingForCapture(ord)
    [] OTHER -> [ord EXCEPT !.next_check_at = NextCheckPending(ord, t)]

\* process_payment_status up to its first order.save(); the succeeded/fast
\* branch continues with the make command
process_payment_status(ord, payment_status, t) ==
  CASE payment_status = "pending" ->
         [ord EXCEPT !.next_check_at = NextCheckPending(ord, t)]
    [] payment_status = "succeeded" ->
         IF is_fast_track(ord, t) THEN SucceededFast(ord) ELSE SucceededSlow(ord)
    [] payment_status = "canceled" -> Canceled(ord)
    [] payment_status = "waiting_for_capture" -> WaitingForCapture(ord)
    [] OTHER -> ord

SendsMake(ord, payment_status, t) ==
  payment_status = "succeeded" /\ is_fast_track(ord, t)

\* the outcome of send_make_command written to the order
MakeResult(ord, ok) ==
  IF ok THEN [ord EXCEPT !.status = "make_pending"]
        ELSE [ord EXCEPT !.status = "make_failed",
                         !.failed_presentation_desc = DescMakeFailed]

\* the exhausted-retries branch without next_check_at = None
ExhaustedRetriesKeepsCheck(ord) ==
  [ord EXCEPT !.status = "failed",
              !.failed_presentation_desc = DescCheckFailed]

ExhaustedRetries(ord) ==
  [ord EXCEPT !.status = "failed",
              !.failed_presentation_desc = DescCheckFailed,
              !.next_check_at = NoTime]

\* handle_check_error giving up one attempt early
handle_check_error_early(ord, t) ==
  IF ord.check_attempts < PAYMENT_ATTEMPTS_LIMIT
  THEN [ord EXCEPT !.next_check_at = t + FAST_TRACK_INTERVAL_S]
  ELSE ExhaustedRetries(ord)

handle_check_error(ord, t) ==
  IF ord.check_attempts <= PAYMENT_ATTEMPTS_LIMIT
  THEN [ord EXCEPT !.next_check_at = t + FAST_TRACK_INTERVAL_S]
  ELSE ExhaustedRetries(ord)

\* check_payment_status: the results it can return for the loaded order
CheckResults(o, ord) ==
  IF ord.payment_reference_id = NoRef THEN {"error"}
  ELSE IF device[o] # "Yookassa" THEN {"skip"}
  ELSE IF ~creds THEN {"error"}
  ELSE ProviderStatuses \cup {"error"}

\* ------------------------------------------------ check_pending_payments
\* the selection with expires_at >= now in place of expires_at > now
SelectedUntilExpiry(t) ==
  {o \in DOMAIN orders :
     /\ orders[o].status = "pending"
     /\ orders[o].status_check_type = "polling"
     /\ orders[o].next_check_at # NoTime
     /\ orders[o].next_check_at <= t
     /\ orders[o].expires_at >= t}

Selected(t) ==
  {o \in DOMAIN orders :
     /\ orders[o].status = "pending"
     /\ orders[o].status_check_type = "polling"
     /\ orders[o].next_check_at # NoTime
     /\ orders[o].next_check_at <= t
     /\ orders[o].expires_at > t}

\* order_by('-payment_started_at'): the sequences over the selected ids in
\* which payment_started_at does not increase
Orderings(S) ==
  {q \in [1..Cardinality(S) -> S] :
     /\ \A i, j \in 1..Cardinality(S) : i # j => q[i] # q[j]
     /\ \A i, j \in 1..Cardinality(S) :
          i < j => orders[q[i]].payment_started_at >= orders[q[j]].payment_started_at}

IdleSched == [pc |-> "idle", now |-> 0, queue |-> <<>>, id |-> 0, cur |-> AbsentOrder]

\* the loop moves to the next loaded order, or the task returns
NextIteration(q) ==
  IF q = <<>> THEN IdleSched
  ELSE [pc |-> "stamp", now |-> sched.now, queue |-> q, id |-> 0, cur |-> AbsentOrder]

SchedStart ==
  /\ sched.pc = "idle"
  /\ Selected(now) # {}
  /\ \A o \in Selected(now) : orders[o].check_attempts < MaxAttempts
  /\ \E q \in Orderings(Selected(now)) :
       sched' = [pc |-> "stamp", now |-> now,
                 queue |-> [i \in 1..Len(q) |-> [id |-> q[i], rec |-> orders[q[i]]]],
                 id |-> 0, cur |-> AbsentOrder]
  /\ UNCHANGED <<now, orders, device, creds, credType, wh, resp, makeCalls, ip>>

\* a stamp that records the time only
StampTimeOnly(ord, t) == [ord EXCEPT !.last_check_at = t]

\* last_check_at, check_attempts += 1, order.save()
Stamp(ord, t) ==
  [ord EXCEPT !.last_check_at = t, !.check_attempts = @ + 1]

SchedStamp ==
  /\ sched.pc = "stamp"
  /\ LET h == Head(sched.queue)
         mem == Stamp(h.rec, sched.now)
     IN /\ orders' = [orders EXCEPT ![h.id] = mem]
        /\ sched' = [sched EXCEPT !.pc = "check", !.queue = Tail(@),
                                  !.id = h.id, !.cur = mem]
  /\ UNCHANGED <<now, device, creds, credType, wh, resp, makeCalls, ip>>

\* check_payment_status returned r; handle_check_error or
\* process_payment_status is applied to the loaded order
SchedCheckWith(r) ==
  /\ sched.pc = "check"
  /\ r \in CheckResults(sched.id, sched.cur)
  /\ CASE r = "skip" ->
            /\ sched' = NextIteration(sched.queue)
            /\ UNCHANGED orders
       [] r = "error" ->
            /\ orders' = [orders EXCEPT ![sched.id] = handle_check_error(sched.cur, now)]
            /\ sched' = NextIteration(sched.queue)
       [] r = "unknown" ->
            /\ sched' = NextIteration(sched.queue)
            /\ UNCHANGED orders
       [] OTHER ->
            LET mem == process_payment_status(sched.cur, r, now)
            IN /\ orders' = [orders EXCEPT ![sched.id] = mem]
               /\ sched' = IF SendsMake(sched.cur, r, now)
                           THEN [sched EXCEPT !.pc = "make", !.cur = mem]
                           ELSE NextIteration(sched.queue)
  /\ UNCHANGED <<now, device, creds, credType, wh, resp, makeCalls, ip>>

SchedCheck == \E r \in ProviderStatuses \cup {"error", "skip"} : SchedCheckWith(r)

\* send_make_command returned (ok) or raised (~ok)
SchedMakeWith(ok) ==
  /\ sched.pc = "make"
  /\ makeCalls[sched.id] < MaxMake
  /\ orders' = [orders EXCEPT ![sched.id] = MakeResult(sched.cur, ok)]
  /\ makeCalls' = [makeCalls EXCEPT ![sched.id] = @ + 1]
  /\ sched' = NextIteration(sched.queue)
  /\ UNCHANGED <<now, device, creds, credType, wh, resp, ip>>

SchedMake == \E ok \in BOOLEAN : SchedMakeWith(ok)

\* ------------------------------------------------------------------ time
Tick ==
  /\ now < MaxTime
  /\ now' = now + 1
  /\ UNCHANGED <<orders, device, creds, credType, sched, wh, resp, makeCalls, ip>>

\* ------------------------------------- yookassa_payment_result_webhook
WebhookEvents == {"payment.succeeded", "payment.canceled", "payment.waiting_for_capture"}

\* the metadata of a notification: complete, without drink_number, or with
\* a size outside '0', '1', '2'
WebhookMetas == {"ok", "no_drink_number", "bad_size"}

IdleWebhook ==
  [pc |-> "idle", id |-> 0, event |-> "none", payment_id |-> NoRef, meta |-> "ok"]

\* order.payment_reference_id = payment_id; save(update_fields=[...])
StoreReference(ord, payment_id) == [ord EXCEPT !.payment_reference_id = payment_id]

\* the status the webhook writes for an event type
WebhookStatus(ord, event) ==
  CASE event = "payment.succeeded" -> [ord EXCEPT !.status = "paid"]
    [] event = "payment.canceled" -> [ord EXCEPT !.status = "not_paid"]
    [] OTHER -> ord

\* the order lookup, the reference write, the expiration check and the
\* status write of one notification
WebhookReceiveWith(o, event, pid, meta) ==
  /\ wh.pc = "idle"
  /\ event # "payment.succeeded" => meta = "ok"
  /\ LET note == [pc |-> "idle", id |-> o, event |-> event,
                  payment_id |-> pid, meta |-> meta]
         ord == StoreReference(orders[o], pid)
     IN IF orders[o].status = "absent"
        THEN /\ resp' = [resp EXCEPT ![o] = 404]
             /\ wh' = note
             /\ UNCHANGED orders
        ELSE IF is_expired(ord, now)
        THEN /\ orders' = [orders EXCEPT ![o] = ord]
             /\ resp' = [resp EXCEPT ![o] = 400]
             /\ wh' = note
        ELSE /\ orders' = [orders EXCEPT ![o] = WebhookStatus(ord, event)]
             /\ IF event = "payment.succeeded"
                THEN /\ wh' = [note EXCEPT !.pc = "make"]
                     /\ UNCHANGED resp
                ELSE /\ wh' = note
                     /\ resp' = [resp EXCEPT ![o] = 200]
  /\ UNCHANGED <<now, device, creds, credType, sched, makeCalls, ip>>

WebhookReceive ==
  \E o \in OrderIds, event \in WebhookEvents, pid \in PaymentIds, meta \in WebhookMetas :
    WebhookReceiveWith(o, event, pid, meta)

\* a webhook that leaves the order paid when the make command fails
WebhookMakeResultKeepsPaid(ord, ok) ==
  IF ok THEN [ord EXCEPT !.status = "make_pending"] ELSE ord

\* the make command of a payment.succeeded notification; the webhook saves
\* the status field only
WebhookMakeResult(ord, ok) ==
  IF ok THEN [ord EXCEPT !.status = "make_pending"]
        ELSE [ord EXCEPT !.status = "make_failed"]

WebhookMakeWith(ok) ==
  /\ wh.pc = "make"
  /\ IF wh.meta # "ok"
     THEN \* KeyError outside the try blocks: the request ends with 500
          /\ ok
          /\ resp' = [resp EXCEPT ![wh.id] = 500]
          /\ UNCHANGED <<orders, makeCalls>>
     ELSE /\ makeCalls[wh.id] < MaxMake
          /\ orders' = [orders EXCEPT ![wh.id] = WebhookMakeResult(@, ok)]
          /\ makeCalls' = [makeCalls EXCEPT ![wh.id] = @ + 1]
          /\ resp' = [resp EXCEPT ![wh.id] = 200]
  /\ wh' = [wh EXCEPT !.pc = "idle"]
  /\ UNCHANGED <<now, device, creds, credType, sched, ip>>

WebhookMake == \E ok \in BOOLEAN : WebhookMakeWith(ok)

\* ---------------------------------------------- PaymentScenarioService
\* a dispatcher that copies the credentials' status_check_type on every
\* dispatch
DispatchSucceededCopiesType(ord, payment_id) ==
  [ord EXCEPT !.payment_reference_id = payment_id, !.status = "pending",
              !.status_check_type = credType]

\* execute_yookassa_scenario after create_payment answered
DispatchSucceeded(ord, payment_id) ==
  [ord EXCEPT !.payment_reference_id = payment_id, !.status = "pending"]

DispatchFailed(ord) == [ord EXCEPT !.status = "failed"]

\* ------------------------------------------------------ initiate_payment
InitiatePaymentWith(o) ==
  /\ IF orders[o].status = "absent"
     THEN /\ resp' = [resp EXCEPT ![o] = 404]
          /\ UNCHANGED orders
     ELSE IF is_expired(orders[o], now)
     THEN /\ resp' = [resp EXCEPT ![o] = 400]
          /\ UNCHANGED orders
     ELSE IF device[o] = "Custom"
     THEN \* execute_custom_scenario: a redirect, or ValueError without one
          /\ \E redirect \in BOOLEAN :
               resp' = [resp EXCEPT ![o] = IF redirect THEN 200 ELSE 503]
          /\ UNCHANGED orders
     ELSE IF ~creds
     THEN \* get_merchant_credentials raises ValueError before the try block
          /\ resp' = [resp EXCEPT ![o] = 503]
          /\ UNCHANGED orders
     ELSE \/ \E pid \in PaymentIds :
               /\ orders' = [orders EXCEPT ![o] = DispatchSucceeded(@, pid)]
               /\ resp' = [resp EXCEPT ![o] = 200]
          \/ /\ orders' = [orders EXCEPT ![o] = DispatchFailed(@)]
             /\ resp' = [resp EXCEPT ![o] = 503]
  /\ UNCHANGED <<now, device, creds, credType, sched, wh, makeCalls, ip>>

InitiatePayment == \E o \in OrderIds : InitiatePaymentWith(o)

\* initiate_payment taken in two steps, for the runs in which other actors
\* write the order while create_payment is awaited
IdleInitiate == [pc |-> "idle", id |-> 0, rec |-> AbsentOrder]

\* Order.objects.get and the checks that let the request reach
\* execute_yookassa_scenario; the Order instance is kept in memory
InitiateLoad(o) ==
  /\ ip.pc = "idle"
  /\ orders[o].status # "absent"
  /\ ~is_expired(orders[o], now)
  /\ device[o] # "Custom"
  /\ creds
  /\ ip' = [pc |-> "dispatch", id |-> o, rec |-> orders[o]]
  /\ UNCHANGED <<now, orders, device, creds, credType, sched, wh, resp, makeCalls>>

\* create_payment returned or raised; order.save() writes every field of
\* the instance that was loaded
InitiateDispatch ==
  /\ ip.pc = "dispatch"
  /\ \/ \E pid \in PaymentIds :
          /\ orders' = [orders EXCEPT ![ip.id] = DispatchSucceeded(ip.rec, pid)]
          /\ resp' = [resp EXCEPT ![ip.id] = 200]
     \/ /\ orders' = [orders EXCEPT ![ip.id] = DispatchFailed(ip.rec)]
        /\ resp' = [resp EXCEPT ![ip.id] = 503]
  /\ ip' = IdleInitiate
  /\ UNCHANGED <<now, device, creds, credType, sched, wh, makeCalls>>

\* ------------------------------------------------ OrderValidationService
\* validate_request_hash: the placeholder accepts every request
validate_request_hash == TRUE

\* check_order_existence testing the status before the expiration
check_order_existence_status_first(o, t) ==
  IF orders[o].status = "absent"
  THEN [should_create_new |-> TRUE, error |-> "none", existing |-> FALSE]
  ELSE IF orders[o].status = "created"
  THEN IF is_expired(orders[o], t)
       THEN [should_create_new |-> FALSE, error |-> "order_expired", existing |-> FALSE]
       ELSE [should_create_new |-> FALSE, error |-> "none", existing |-> TRUE]
  ELSE [should_create_new |-> TRUE, error |-> "none", existing |-> FALSE]

\* check_order_existence: (should_create_new, error, existing order found)
check_order_existence(o, t) ==
  IF orders[o].status = "absent"
  THEN [should_create_new |-> TRUE, error |-> "none", existing |-> FALSE]
  ELSE IF is_expired(orders[o], t)
  THEN [should_create_new |-> FALSE, error |-> "order_expired", existing |-> FALSE]
  ELSE IF orders[o].status = "created"
  THEN [should_create_new |-> FALSE, error |-> "none", existing |-> TRUE]
  ELSE [should_create_new |-> TRUE, error |-> "none", existing |-> FALSE]

Heartbeats == {"online", "device_offline", "heartbeat_check_failed"}

\* settings.DEVICE_ONLINE_THRESHOLD_MINUTES, in ticks
DEVICE_ONLINE_THRESHOLD_MINUTES == 2

\* heartbeatCreatedAt of the heartbeats the devices have sent
HeartbeatTimes == {0, DEVICE_ONLINE_THRESHOLD_MINUTES}

\* what get_device_heartbeat does: it raises, answers without content, with
\* a record without heartbeatCreatedAt, or with a record that carries it
HeartbeatResponses ==
  {[kind |-> "query_failed", ts |-> NoTime],
   [kind |-> "no_record", ts |-> NoTime],
   [kind |-> "record", ts |-> NoTime]}
    \cup {[kind |-> "record", ts |-> t] : t \in HeartbeatTimes}

\* the device check calling a heartbeat of exactly the threshold age offline
check_device_online_status_exclusive(h, t) ==
  IF h.kind = "query_failed" THEN "heartbeat_check_failed"
  ELSE IF h.kind = "no_record" THEN "device_offline"
  ELSE IF h.ts = NoTime THEN "heartbeat_check_failed"
  ELSE IF t - h.ts >= DEVICE_ONLINE_THRESHOLD_MINUTES THEN "device_offline"
  ELSE "online"

check_device_online_status(h, t) ==
  IF h.kind = "query_failed" THEN "heartbeat_check_failed"
  ELSE IF h.kind = "no_record" THEN "device_offline"
  ELSE IF h.ts = NoTime THEN "heartbeat_check_failed"
  ELSE IF t - h.ts > DEVICE_ONLINE_THRESHOLD_MINUTES THEN "device_offline"
  ELSE "online"

\* the chain passing the order check's decision on when the device check
\* fails
execute_validation_chain_keeps_decision(o, t, hb) ==
  LET oe == check_order_existence(o, t)
  IN IF ~validate_request_hash
     THEN [valid |-> FALSE, error |-> "invalid_hash", existing |-> FALSE,
           should_create_new_order |-> FALSE, calls |-> <<"hash">>]
     ELSE IF oe.error # "none"
     THEN [valid |-> FALSE, error |-> oe.error, existing |-> FALSE,
           should_create_new_order |-> FALSE, calls |-> <<"hash", "order">>]
     ELSE IF hb # "online"
     THEN [valid |-> FALSE, error |-> hb, existing |-> oe.existing,
           should_create_new_order |-> oe.should_create_new,
           calls |-> <<"hash", "order", "device">>]
     ELSE [valid |-> TRUE, error |-> "none", existing |-> oe.existing,
           should_create_new_order |-> oe.should_create_new,
           calls |-> <<"hash", "order", "device">>]

\* execute_validation_chain; hb is the outcome of check_device_online_status
\* and calls lists the checks that were called
execute_validation_chain(o, t, hb) ==
  LET oe == check_order_existence(o, t)
  IN IF ~validate_request_hash
     THEN [valid |-> FALSE, error |-> "invalid_hash", existing |-> FALSE,
           should_create_new_order |-> FALSE, calls |-> <<"hash">>]
     ELSE IF oe.error # "none"
     THEN [valid |-> FALSE, error |-> oe.error, existing |-> FALSE,
           should_create_new_order |-> FALSE, calls |-> <<"hash", "order">>]
     ELSE IF hb # "online"
     THEN [valid |-> FALSE, error |-> hb, existing |-> FALSE,
           should_create_new_order |-> FALSE,
           calls |-> <<"hash", "order", "device">>]
     ELSE [valid |-> TRUE, error |-> "none", existing |-> oe.existing,
           should_create_new_order |-> oe.should_create_new,
           calls |-> <<"hash", "order", "device">>]

\* -------------------------------------------------- process_payment_flow
\* what happens after the validation chain: validate_merchant raises,
\* send_static_drink raises, the Custom device has no redirect_url, or none
FlowOutcomes == {"ok", "merchant_expired", "tmetr_failed", "no_redirect_url"}

\* the routing after the order was created or reused
RouteOrder(o, ord, outcome) ==
  IF device[o] = "Custom" /\ outcome = "no_redirect_url"
  THEN /\ orders' = [orders EXCEPT ![o] = DispatchFailed(ord)]
       /\ resp' = [resp EXCEPT ![o] = 503]
  ELSE /\ orders' = [orders EXCEPT ![o] = ord]
       /\ resp' = [resp EXCEPT ![o] = 302]

\* a rejection that first stores an order for a new id
RejectRequestStoresOrder(o) ==
  /\ resp' = [resp EXCEPT ![o] = 400]
  /\ orders' = [orders EXCEPT ![o] = IF @.status = "absent" THEN NewOrder(now) ELSE @]

\* the validation chain failed for a device that is not a test device: the
\* error page is rendered with status 400
RejectRequest(o) ==
  /\ resp' = [resp EXCEPT ![o] = 400]
  /\ UNCHANGED orders

ProcessPaymentFlowWith(o, hb, isTest, outcome) ==
  /\ LET vr == execute_validation_chain(o, now, hb)
     IN IF ~vr.valid /\ ~isTest
        THEN RejectRequest(o)
        ELSE IF outcome = "merchant_expired"
        THEN /\ resp' = [resp EXCEPT ![o] = 403]
             /\ UNCHANGED orders
        ELSE IF outcome = "tmetr_failed"
        THEN /\ resp' = [resp EXCEPT ![o] = 503]
             /\ UNCHANGED orders
        ELSE IF vr.should_create_new_order
        THEN IF orders[o].status # "absent"
             THEN \* Order.objects.create on a stored id: IntegrityError
                  /\ resp' = [resp EXCEPT ![o] = 400]
                  /\ UNCHANGED orders
             ELSE RouteOrder(o, NewOrder(now), outcome)
        ELSE IF ~vr.existing
        THEN \* existing_order is None: order.id raises, answered with 500
             /\ resp' = [resp EXCEPT ![o] = 500]
             /\ UNCHANGED orders
        ELSE RouteOrder(o, orders[o], outcome)
  /\ UNCHANGED <<now, device, creds, credType, sched, wh, makeCalls, ip>>

ProcessPaymentFlow ==
  \E o \in OrderIds, h \in HeartbeatResponses, isTest \in BOOLEAN,
     outcome \in FlowOutcomes :
    ProcessPaymentFlowWith(o, check_device_online_status(h, now), isTest, outcome)

\* an edit of the merchant's credentials record in the admin site
ChangeCredentials ==
  /\ creds
  /\ \E ct \in CheckTypes \ {credType} : credType' = ct
  /\ UNCHANGED <<now, orders, device, creds, sched, wh, resp, makeCalls, ip>>

Init ==
  /\ now = 0
  /\ orders \in [OrderIds -> {AbsentOrder} \cup {InFlightOrder(ct) : ct \in CheckTypes}]
  /\ device \in [OrderIds -> {"Yookassa", "Custom"}]
  /\ creds \in BOOLEAN
  /\ credType = "polling"
  /\ sched = IdleSched
  /\ wh = IdleWebhook
  /\ resp = [o \in OrderIds |-> 0]
  /\ makeCalls = [o \in OrderIds |-> 0]
  /\ ip = IdleInitiate

Next ==
  \/ Tick
  \/ SchedStart
  \/ SchedStamp
  \/ SchedCheck
  \/ SchedMake
  \/ WebhookReceive
  \/ WebhookMake
  \/ InitiatePayment
  \/ ProcessPaymentFlow

Spec == Init /\ [][Next]_vars

\* The polling path alone: the dispatch entry points, the clock and the task
\* check_pending_payments with a provider that answers pending, succeeded,
\* canceled or fails. Celery beat starts the task again and again and every
\* started step of the task completes.
PollCheck ==
  \E r \in {"pending", "succeeded", "canceled", "error", "skip"} : SchedCheckWith(r)

PollNext ==
  \/ Tick
  \/ SchedStart
  \/ SchedStamp
  \/ PollCheck
  \/ SchedMake
  \/ InitiatePayment
  \/ ProcessPaymentFlow

PollSpec ==
  /\ Init
  /\ [][PollNext]_vars
  /\ WF_vars(Tick)
  /\ WF_vars(SchedStart)
  /\ WF_vars(SchedStamp)
  /\ WF_vars(PollCheck)
  /\ WF_vars(SchedMake)

\* The polling path with notifications of the provider for the payment of
\* the order in flight, together with edits of the credentials record.
CredWebhookReceive ==
  \E o \in OrderIds, event \in {"payment.succeeded", "payment.canceled"} :
    WebhookReceiveWith(o, event, "P1", "ok")

CredNext ==
  \/ PollNext
  \/ CredWebhookReceive
  \/ WebhookMake
  \/ ChangeCredentials

CredSpec == Init /\ [][CredNext]_vars

\* The task check_pending_payments alone over two stored orders, each of
\* them one of the rows the selection is tested with: due, in another
\* status, of another check type, due later, expiring at the time of the
\* first due check, without next_check_at, without payment_reference_id.
BatchIds == {1, 2}

BatchRow(st, ct, nxt, exp) ==
  [AbsentOrder EXCEPT !.status = st,
                      !.status_check_type = ct,
                      !.payment_reference_id = "P1",
                      !.expires_at = exp,
                      !.payment_started_at = 0,
                      !.next_check_at = nxt]

BatchRows ==
  {BatchRow("pending", "polling", FAST_TRACK_INTERVAL_S, ORDER_EXPIRATION_MINUTES),
   BatchRow("paid", "polling", FAST_TRACK_INTERVAL_S, ORDER_EXPIRATION_MINUTES),
   BatchRow("pending", "webhook", FAST_TRACK_INTERVAL_S, ORDER_EXPIRATION_MINUTES),
   BatchRow("pending", "polling", FAST_TRACK_INTERVAL_S + 1, ORDER_EXPIRATION_MINUTES),
   BatchRow("pending", "polling", FAST_TRACK_INTERVAL_S, FAST_TRACK_INTERVAL_S),
   BatchRow("pending", "polling", NoTime, ORDER_EXPIRATION_MINUTES),
   [BatchRow("pending", "polling", FAST_TRACK_INTERVAL_S, ORDER_EXPIRATION_MINUTES)
      EXCEPT !.payment_reference_id = NoRef]}

BatchInit ==
  /\ now = 0
  /\ orders \in [BatchIds -> BatchRows]
  /\ device \in [BatchIds -> {"Yookassa", "Custom"}]
  /\ creds \in BOOLEAN
  /\ credType = "polling"
  /\ sched = IdleSched
  /\ wh = IdleWebhook
  /\ resp = [o \in BatchIds |-> 0]
  /\ makeCalls = [o \in BatchIds |-> 0]
  /\ ip = IdleInitiate

BatchNext ==
  \/ Tick
  \/ SchedStart
  \/ SchedStamp
  \/ SchedCheck
  \/ SchedMake

BatchSpec == BatchInit /\ [][BatchNext]_vars

\* The task check_pending_payments together with initiate_payment requests
\* whose provider call takes time: the task may run between the moment a
\* request loads the order and the moment it saves it.
RaceNext ==
  \/ Tick
  \/ SchedStart
  \/ SchedStamp
  \/ PollCheck
  \/ SchedMake
  \/ \E o \in OrderIds : InitiateLoad(o)
  \/ InitiateDispatch

RaceSpec == Init /\ [][RaceNext]_vars

\* ------------------------------------------------- the two paths, whole
\* yookassa_payment_result_webhook on a stored, unexpired order: the row it
\* leaves and whether it called send_make_command
webhook_path(ord, event, ok) ==
  IF event = "payment.succeeded"
  THEN [row |-> WebhookMakeResult(WebhookStatus(ord, event), ok), make |-> TRUE]
  ELSE [row |-> WebhookStatus(ord, event), make |-> FALSE]

\* process_payment_status as check_pending_payments calls it
polling_path(ord, payment_status, ok, t) ==
  IF SendsMake(ord, payment_status, t)
  THEN [row |-> MakeResult(process_payment_status(ord, payment_status, t), ok),
        make |-> TRUE]
  ELSE [row |-> process_payment_status(ord, payment_status, t), make |-> FALSE]

\* ---------------------------------------------------------------- claims
PendingPolling(o) ==
  /\ orders[o].status = "pending"
  /\ orders[o].status_check_type = "polling"

\* C1: under fair runs of check_pending_payments every order that is
\* pending with status_check_type polling (on a Yookassa device with
\* credentials) eventually reaches a terminal status.
C1_EventuallyTerminal ==
  \A o \in OrderIds :
    (PendingPolling(o) /\ device[o] = "Yookassa" /\ creds)
      ~> (orders[o].status \in TerminalStatuses)

\* C2: at most one make command is sent for an order over its whole life.
C2_AtMostOneMake == \A o \in OrderIds : makeCalls[o] <= 1

\* the notification (event, pid) was delivered to order o, answered with
\* 200, and what it wrote is still stored
AlreadyApplied(o, event, pid) ==
  /\ wh.pc = "idle"
  /\ wh.id = o
  /\ wh.event = event
  /\ wh.payment_id = pid
  /\ wh.meta = "ok"
  /\ resp[o] = 200
  /\ orders[o].payment_reference_id = pid
  /\ IF event = "payment.canceled"
     THEN orders[o].status = "not_paid"
     ELSE orders[o].status \in {"make_pending", "make_failed"}

\* C3: a second delivery of an applied payment.succeeded or
\* payment.canceled notification leaves the order unchanged, sends no make
\* command and is answered with success.
C3_DuplicateIsNoOp ==
  [][\A o \in OrderIds, pid \in PaymentIds,
       event \in {"payment.succeeded", "payment.canceled"} :
       (AlreadyApplied(o, event, pid) /\ WebhookReceiveWith(o, event, pid, "ok"))
         => /\ orders'[o] = orders[o]
            /\ makeCalls'[o] = makeCalls[o]
            /\ wh'.pc = "idle"
            /\ resp'[o] = 200]_vars

\* the fields the reconciler may write
Bookkeeping(ord) ==
  <<ord.status, ord.next_check_at, ord.check_attempts, ord.failed_presentation_desc>>

\* C4: process_payment_status or handle_check_error applied to an order
\* whose stored status is terminal changes neither status nor next_check_at,
\* check_attempts or failed_presentation_desc, and sends no make command.
C4_TerminalUntouched ==
  [][\A r \in ProviderStatuses \cup {"error"} :
       (SchedCheckWith(r) /\ orders[sched.id].status \in TerminalStatuses)
         => /\ Bookkeeping(orders'[sched.id]) = Bookkeeping(orders[sched.id])
            /\ sched'.pc # "make"]_vars

\* C5: an order with expires_at earlier than now is never moved to paid,
\* successful or manual_make.
C5_ExpiredNeverAdvanced ==
  [][\A o \in OrderIds :
       (/\ orders[o].status # "absent"
        /\ now > orders[o].expires_at
        /\ orders'[o].status # orders[o].status)
         => orders'[o].status \notin {"paid", "successful", "manual_make"}]_vars

\* C6: a notification for an order with now > expires_at is answered with
\* 400, sends no make command and leaves every field of the order unchanged.
C6_ExpiredWebhookRejected ==
  [][\A o \in OrderIds, event \in WebhookEvents, pid \in PaymentIds,
       meta \in WebhookMetas :
       (/\ WebhookReceiveWith(o, event, pid, meta)
        /\ orders[o].status # "absent"
        /\ now > orders[o].expires_at)
         => /\ resp'[o] = 400
            /\ wh'.pc = "idle"
            /\ makeCalls' = makeCalls
            /\ orders'[o] = orders[o]]_vars

\* C7: for the same pending order and the same provider outcome (succeeded
\* or canceled) the webhook path and the polling path end with the same
\* status, the same next_check_at and the same decision to send a make
\* command.
SameOutcome(a, b) ==
  /\ a.row.status = b.row.status
  /\ a.row.next_check_at = b.row.next_check_at
  /\ a.make = b.make

C7_PathsAgree ==
  \A o \in OrderIds :
    (orders[o].status = "pending" /\ ~is_expired(orders[o], now))
      => \A ok \in BOOLEAN :
           /\ SameOutcome(webhook_path(orders[o], "payment.succeeded", ok),
                          polling_path(orders[o], "succeeded", ok, now))
           /\ SameOutcome(webhook_path(orders[o], "payment.canceled", ok),
                          polling_path(orders[o], "canceled", ok, now))

\* the edges of the order state machine
StatusEdges ==
  {<<"created", "pending">>, <<"created", "failed">>,
   <<"pending", "paid">>, <<"pending", "manual_make">>,
   <<"pending", "not_paid">>, <<"pending", "failed">>,
   <<"paid", "make_pending">>, <<"paid", "make_failed">>,
   <<"make_pending", "successful">>, <<"make_pending", "make_failed">>}

\* the creation of a row by process_payment_flow, which may fail the new
\* order in the same request
CreationEdges == {<<"absent", "created">>, <<"absent", "failed">>}

\* C8: every change of an order's status follows an edge of the state
\* machine.
C8_StatusEdgesOnly ==
  [][\A o \in OrderIds :
       orders'[o].status # orders[o].status
         => <<orders[o].status, orders'[o].status>> \in StatusEdges \cup CreationEdges]_vars

\* C9: process_payment_status with status succeeded for a pending order
\* with now - payment_started_at <= FAST_TRACK_LIMIT_S writes paid with
\* next_check_at null and goes on to the make command; the make command is
\* invoked once and leaves make_pending if it succeeded, make_failed if it
\* failed, next_check_at still null.
C9_FastTrackSucceeded ==
  [][/\ (/\ SchedCheckWith("succeeded")
         /\ sched.cur.status = "pending"
         /\ sched.cur.payment_started_at # NoTime
         /\ now - sched.cur.payment_started_at <= FAST_TRACK_LIMIT_S)
          => /\ orders'[sched.id].status = "paid"
             /\ orders'[sched.id].next_check_at = NoTime
             /\ makeCalls' = makeCalls
             /\ sched'.pc = "make"
             /\ sched'.id = sched.id
     /\ \A ok \in BOOLEAN :
          SchedMakeWith(ok)
            => /\ makeCalls'[sched.id] = makeCalls[sched.id] + 1
               /\ orders'[sched.id].status = (IF ok THEN "make_pending" ELSE "make_failed")
               /\ orders'[sched.id].next_check_at = NoTime
               /\ sched'.pc # "make"]_vars

\* the check at the boundary now - payment_started_at = FAST_TRACK_LIMIT_S
\* has written paid and the make command is about to be sent
C9_Witness ==
  /\ sched.pc = "make"
  /\ sched.cur.status = "paid"
  /\ now - sched.cur.payment_started_at = FAST_TRACK_LIMIT_S
  /\ orders[sched.id].status = "paid"

\* C10: process_payment_status with status succeeded for a pending order
\* with now - payment_started_at > FAST_TRACK_LIMIT_S writes manual_make
\* with next_check_at null and sends no make command.
C10_SlowTrackSucceeded ==
  [][(/\ SchedCheckWith("succeeded")
      /\ sched.cur.status = "pending"
      /\ sched.cur.payment_started_at # NoTime
      /\ now - sched.cur.payment_started_at > FAST_TRACK_LIMIT_S)
       => /\ orders'[sched.id].status = "manual_make"
          /\ orders'[sched.id].next_check_at = NoTime
          /\ makeCalls' = makeCalls
          /\ sched'.pc # "make"]_vars

\* a succeeded payment was found on the slow track
C10_Witness ==
  \E o \in OrderIds :
    /\ orders[o].status = "manual_make"
    /\ orders[o].next_check_at = NoTime
    /\ now - orders[o].payment_started_at > FAST_TRACK_LIMIT_S
    /\ makeCalls[o] = 0

\* C11: process_payment_status with status pending leaves a pending order
\* pending and sets next_check_at to now + FAST_TRACK_INTERVAL_S when
\* now - payment_started_at <= FAST_TRACK_LIMIT_S, and to
\* now + SLOW_TRACK_INTERVAL_S otherwise.
C11_PendingRescheduled ==
  [][(/\ SchedCheckWith("pending")
      /\ sched.cur.status = "pending"
      /\ sched.cur.payment_started_at # NoTime)
       => /\ orders'[sched.id].status = "pending"
          /\ orders'[sched.id].next_check_at =
               (IF now - sched.cur.payment_started_at <= FAST_TRACK_LIMIT_S
                THEN now + FAST_TRACK_INTERVAL_S
                ELSE now + SLOW_TRACK_INTERVAL_S)
          /\ makeCalls' = makeCalls
          /\ sched'.pc # "make"]_vars

\* a pending answer has just been processed on the slow track
C11_Witness ==
  \E o \in OrderIds :
    /\ orders[o].status = "pending"
    /\ orders[o].check_attempts >= 1
    /\ now - orders[o].payment_started_at > FAST_TRACK_LIMIT_S
    /\ orders[o].next_check_at = now + SLOW_TRACK_INTERVAL_S

\* C12: process_payment_status with status canceled for a pending order
\* writes not_paid with next_check_at null and sends no make command, on the
\* fast track and on the slow track.
C12_CanceledNotPaid ==
  [][(/\ SchedCheckWith("canceled")
      /\ sched.cur.status = "pending")
       => /\ orders'[sched.id].status = "not_paid"
          /\ orders'[sched.id].next_check_at = NoTime
          /\ makeCalls' = makeCalls
          /\ sched'.pc # "make"]_vars

\* a canceled answer was processed in a run started on the slow track
C12_Witness ==
  \E o \in OrderIds :
    /\ orders[o].status = "not_paid"
    /\ orders[o].next_check_at = NoTime
    /\ orders[o].last_check_at - orders[o].payment_started_at > FAST_TRACK_LIMIT_S
    /\ makeCalls[o] = 0

\* C13: handle_check_error on an order with check_attempts <=
\* PAYMENT_ATTEMPTS_LIMIT leaves the status as it is and sets next_check_at
\* to now + FAST_TRACK_INTERVAL_S, a time after now.
C13_ErrorRetried ==
  [][(/\ SchedCheckWith("error")
      /\ sched.cur.check_attempts <= PAYMENT_ATTEMPTS_LIMIT)
       => /\ orders'[sched.id].status = sched.cur.status
          /\ orders'[sched.id].next_check_at = now + FAST_TRACK_INTERVAL_S
          /\ orders'[sched.id].next_check_at > now
          /\ orders'[sched.id].failed_presentation_desc = sched.cur.failed_presentation_desc]_vars

\* without credentials every check fails: the first failed check of the
\* order has been rescheduled
C13_Witness ==
  \E o \in OrderIds :
    /\ ~creds
    /\ device[o] = "Yookassa"
    /\ orders[o].status = "pending"
    /\ orders[o].check_attempts >= 1
    /\ orders[o].check_attempts <= PAYMENT_ATTEMPTS_LIMIT
    /\ orders[o].last_check_at # NoTime
    /\ orders[o].next_check_at > orders[o].last_check_at

\* C14: handle_check_error on an order with check_attempts >
\* PAYMENT_ATTEMPTS_LIMIT writes failed with a failed_presentation_desc and
\* next_check_at null.
C14_ErrorExhausted ==
  [][(/\ SchedCheckWith("error")
      /\ sched.cur.check_attempts > PAYMENT_ATTEMPTS_LIMIT)
       => /\ orders'[sched.id].status = "failed"
          /\ orders'[sched.id].failed_presentation_desc # NoDesc
          /\ orders'[sched.id].next_check_at = NoTime]_vars

\* the retries of an order were exhausted
C14_Witness ==
  \E o \in OrderIds :
    /\ orders[o].status = "failed"
    /\ orders[o].failed_presentation_desc = DescCheckFailed
    /\ orders[o].next_check_at = NoTime
    /\ orders[o].check_attempts > PAYMENT_ATTEMPTS_LIMIT

\* C15: after a dispatch that created the payment with the provider the
\* order has payment_reference_id set to the payment id, status_check_type
\* equal to the credentials' status_check_type, status pending and
\* payment_started_at equal to the dispatch time.
C15_DispatchSetsAll ==
  [][\A o \in OrderIds :
       (/\ InitiatePaymentWith(o)
        /\ device[o] = "Yookassa"
        /\ orders[o].status = "created"
        /\ resp'[o] = 200)
         => /\ orders'[o].payment_reference_id \in PaymentIds
            /\ orders'[o].status_check_type = credType
            /\ orders'[o].status = "pending"
            /\ orders'[o].payment_started_at = now]_vars

\* C16: a dispatch attempt for an order in status created that ends in an
\* error leaves the order failed, from initiate_payment and from
\* process_payment_flow.
C16_DispatchErrorFails ==
  [][\A o \in OrderIds :
       /\ (/\ InitiatePaymentWith(o)
           /\ orders[o].status = "created"
           /\ resp'[o] = 503)
            => orders'[o].status = "failed"
       /\ \A hb \in Heartbeats, isTest \in BOOLEAN :
            (/\ ProcessPaymentFlowWith(o, hb, isTest, "no_redirect_url")
             /\ device[o] = "Custom"
             /\ orders[o].status \in {"absent", "created"}
             /\ resp'[o] = 503)
              => orders'[o].status = "failed"]_vars

\* C17: once an order has entered pending its status_check_type never
\* changes, whatever operation runs and however the credentials'
\* status_check_type is edited.
C17_CheckTypeFrozen ==
  [][\A o \in OrderIds :
       orders[o].status \notin {"absent", "created"}
         => orders'[o].status_check_type = orders[o].status_check_type]_vars

\* the credentials were switched to webhook, and the order, dispatched
\* again and then checked by the task, is still a polling order
C17_Witness ==
  \E o \in OrderIds :
    /\ credType = "webhook"
    /\ orders[o].status_check_type = "polling"
    /\ orders[o].payment_reference_id = "P2"
    /\ orders[o].check_attempts >= 1
    /\ orders[o].status \in TerminalStatuses

\* the orders a run started at time t has to check
DueAt(o, t) ==
  /\ orders[o].status = "pending"
  /\ orders[o].status_check_type = "polling"
  /\ orders[o].next_check_at # NoTime
  /\ orders[o].next_check_at <= t
  /\ orders[o].expires_at > t

\* the order the running task is working on
CurrentOrder == IF sched.pc = "stamp" THEN Head(sched.queue).id ELSE sched.id

\* C18: a run of check_pending_payments started at time now loads exactly
\* the orders that are pending, of check type polling, with next_check_at
\* non-null and <= now and expires_at > now, each of them once; it takes
\* them one after the other, drops none, and writes no order but the one
\* it is working on.
C18_SelectionExact ==
  [][/\ SchedStart
          => /\ {sched'.queue[i].id : i \in 1..Len(sched'.queue)}
                  = {o \in DOMAIN orders : DueAt(o, now)}
             /\ \A i, j \in 1..Len(sched'.queue) :
                  i # j => sched'.queue[i].id # sched'.queue[j].id
             /\ sched'.now = now
             /\ orders' = orders
     /\ \A o \in DOMAIN orders :
          orders'[o] # orders[o] => (sched.pc # "idle" /\ o = CurrentOrder)
     /\ SchedStamp
          => /\ sched'.id = Head(sched.queue).id
             /\ sched'.queue = Tail(sched.queue)
             /\ sched'.pc = "check"
             /\ orders'[sched'.id].check_attempts = orders[sched'.id].check_attempts + 1
     /\ (sched.pc \in {"check", "make"} /\ sched'.pc # "idle")
          => /\ sched'.queue = sched.queue
             /\ sched'.pc = "make" => sched'.id = sched.id
     /\ (sched.pc # "idle" /\ sched'.pc = "idle") => sched.queue = <<>>]_vars

\* the task is checking the one order it selected; the other order, due but
\* expiring at the time of the run, has not been touched
C18_Witness ==
  /\ sched.pc = "check"
  /\ sched.queue = <<>>
  /\ orders[sched.id].last_check_at = sched.now
  /\ \E o \in DOMAIN orders :
       /\ o # sched.id
       /\ orders[o].status = "pending"
       /\ orders[o].status_check_type = "polling"
       /\ orders[o].next_check_at # NoTime
       /\ orders[o].next_check_at <= sched.now
       /\ orders[o].expires_at = sched.now
       /\ orders[o].check_attempts = 0

\* C19: execute_validation_chain calls the request check, the order check
\* and the device check in this order and stops at the first failure: the
\* later checks are not called and the result is valid = false with the
\* error of the failed check, no existing order and should_create_new_order
\* = false.
C19_ChainShortCircuits ==
  \A o \in OrderIds, hb \in Heartbeats :
    LET vr == execute_validation_chain(o, now, hb)
        expired == orders[o].status # "absent" /\ now > orders[o].expires_at
    IN /\ expired
            => vr = [valid |-> FALSE, error |-> "order_expired", existing |-> FALSE,
                     should_create_new_order |-> FALSE, calls |-> <<"hash", "order">>]
       /\ (~expired /\ hb # "online")
            => vr = [valid |-> FALSE, error |-> hb, existing |-> FALSE,
                     should_create_new_order |-> FALSE,
                     calls |-> <<"hash", "order", "device">>]
       /\ (~expired /\ hb = "online")
            => /\ vr.valid
               /\ vr.error = "none"
               /\ vr.calls = <<"hash", "order", "device">>

\* a request for an id without an order was rejected by the device check:
\* no order was created
C19_Witness ==
  \E o \in OrderIds :
    /\ orders[o].status = "absent"
    /\ resp[o] = 400
    /\ \A hb \in Heartbeats \ {"online"} :
         ~execute_validation_chain(o, now, hb).valid

\* C20: check_order_existence answers create-new without error when no
\* order has the id; the OrderExpired error, without order and without
\* create-new, when the order is expired, whatever its status; the order,
\* without create-new, when it is created and not expired; create-new
\* without error and without order when it is not expired and in another
\* status.
C20_OrderExistenceCases ==
  \A o \in OrderIds :
    LET r == check_order_existence(o, now)
        found == orders[o].status # "absent"
        expired == now > orders[o].expires_at
    IN /\ ~found
            => r = [should_create_new |-> TRUE, error |-> "none", existing |-> FALSE]
       /\ (found /\ expired)
            => r = [should_create_new |-> FALSE, error |-> "order_expired",
                    existing |-> FALSE]
       /\ (found /\ ~expired /\ orders[o].status = "created")
            => r = [should_create_new |-> FALSE, error |-> "none", existing |-> TRUE]
       /\ (found /\ ~expired /\ orders[o].status # "created")
            => r = [should_create_new |-> TRUE, error |-> "none", existing |-> FALSE]

\* a request for an expired order that is not in status created was
\* rejected
C20_Witness ==
  \E o \in OrderIds :
    /\ orders[o].status \notin {"absent", "created"}
    /\ now > orders[o].expires_at
    /\ resp[o] = 400
    /\ check_order_existence(o, now).error = "order_expired"

\* C21: check_device_online_status reports the device online exactly when
\* the heartbeat query answers with a record that carries a timestamp and
\* now minus the timestamp is at most the threshold; without a record the
\* answer is the device-offline error, and for a record without timestamp
\* or a failed query it is the heartbeat-check-failed error.
C21_DeviceOnlineIff ==
  \A h \in HeartbeatResponses :
    LET r == check_device_online_status(h, now)
    IN /\ r = "online"
            <=> (/\ h.kind = "record"
                 /\ h.ts # NoTime
                 /\ now - h.ts <= DEVICE_ONLINE_THRESHOLD_MINUTES)
       /\ h.kind = "no_record" => r = "device_offline"
       /\ (h.kind = "query_failed" \/ (h.kind = "record" /\ h.ts = NoTime))
            => r = "heartbeat_check_failed"
       /\ r \in Heartbeats

\* an order was created by a request at the time a heartbeat sent at time 0
\* is exactly DEVICE_ONLINE_THRESHOLD_MINUTES old
C21_Witness ==
  \E o \in OrderIds :
    /\ now = DEVICE_ONLINE_THRESHOLD_MINUTES
    /\ orders[o].status = "created"
    /\ orders[o].expires_at = now + ORDER_EXPIRATION_MINUTES
    /\ resp[o] = 302
    /\ check_device_online_status([kind |-> "record", ts |-> 0], now) = "online"

\* C22: when the validation chain rejects a request for a device that is
\* not a test device, process_payment_flow answers with a 4xx error, creates
\* no order and changes no field of a stored order.
C22_RejectionLeavesOrders ==
  [][\A o \in OrderIds, hb \in Heartbeats, outcome \in FlowOutcomes :
       (/\ ProcessPaymentFlowWith(o, hb, FALSE, outcome)
        /\ (\/ (orders[o].status # "absent" /\ now > orders[o].expires_at)
            \/ hb # "online"))
         => /\ resp'[o] >= 400
            /\ resp'[o] < 500
            /\ orders' = orders]_vars

\* a request for an id without an order was rejected and the id still has
\* no order
C22_Witness ==
  \E o \in OrderIds :
    /\ orders[o].status = "absent"
    /\ resp[o] = 400
    /\ now > 0

\* C23: when the make command fails while the webhook processes
\* payment.succeeded for an order that was not expired, the webhook answers
\* 200 and the order ends in make_failed.
C23_WebhookMakeFailureAnswers200 ==
  [][(WebhookMakeWith(FALSE) /\ wh.event = "payment.succeeded")
       => /\ resp'[wh.id] = 200
          /\ orders'[wh.id].status = "make_failed"]_vars

\* a payment.succeeded notification whose make command failed has been
\* answered
C23_Witness ==
  /\ wh.pc = "idle"
  /\ wh.event = "payment.succeeded"
  /\ wh.meta = "ok"
  /\ orders[wh.id].status = "make_failed"
  /\ orders[wh.id].payment_reference_id = wh.payment_id
  /\ resp[wh.id] = 200

\* C24: an order with status make_failed has a failed_presentation_desc,
\* whichever path sent the make command.
C24_MakeFailedHasDesc ==
  \A o \in DOMAIN orders :
    orders[o].status = "make_failed" => orders[o].failed_presentation_desc # NoDesc

\* C25: initiate_payment for an order with now > expires_at answers 400 and
\* leaves the order as it was: no payment reference is stored and the status
\* does not change.
C25_ExpiredInitiateRefused ==
  [][\A o \in OrderIds :
       (/\ InitiatePaymentWith(o)
        /\ orders[o].status # "absent"
        /\ now > orders[o].expires_at)
         => /\ resp'[o] = 400
            /\ orders'[o].status = orders[o].status
            /\ orders'[o].payment_reference_id = orders[o].payment_reference_id
            /\ orders' = orders]_vars

\* an order that was never dispatched is past its expiration and the last
\* request for it was answered with 400
C25_Witness ==
  \E o \in OrderIds :
    /\ orders[o].status = "created"
    /\ orders[o].payment_reference_id = NoRef
    /\ now > orders[o].expires_at
    /\ creds
    /\ device[o] # "Custom"
    /\ resp[o] = 400

\* C26: a dispatch at time t anchors payment_started_at at t, and every
\* later check of the order decides fast or slow anew from
\* now - payment_started_at: past FAST_TRACK_LIMIT_S a pending answer
\* schedules the next check SLOW_TRACK_INTERVAL_S ahead and a succeeded
\* answer yields manual_make.
C26_TrackRecomputedFromDispatch ==
  [][/\ \A o \in OrderIds :
          (/\ InitiatePaymentWith(o)
           /\ orders'[o].payment_reference_id # orders[o].payment_reference_id)
            => orders'[o].payment_started_at = now
     /\ (/\ SchedCheckWith("pending")
         /\ sched.cur.status = "pending"
         /\ sched.cur.payment_started_at # NoTime
         /\ now - sched.cur.payment_started_at > FAST_TRACK_LIMIT_S)
          => orders'[sched.id].next_check_at = now + SLOW_TRACK_INTERVAL_S
     /\ (/\ SchedCheckWith("succeeded")
         /\ sched.cur.status = "pending"
         /\ sched.cur.payment_started_at # NoTime
         /\ now - sched.cur.payment_started_at > FAST_TRACK_LIMIT_S)
          => orders'[sched.id].status = "manual_make"]_vars

\* C27: when the stored status of an order has been changed since
\* check_pending_payments read it, neither the save of the bookkeeping
\* fields nor the save of the reconciliation result changes the stored
\* status.
C27_SchedulerKeepsConcurrentStatus ==
  [][/\ (/\ SchedStamp
         /\ orders[Head(sched.queue).id].status # Head(sched.queue).rec.status)
          => orders'[Head(sched.queue).id].status = orders[Head(sched.queue).id].status
     /\ \A r \in ProviderStatuses \cup {"error"} :
          (/\ SchedCheckWith(r)
           /\ orders[sched.id].status # sched.cur.status)
            => orders'[sched.id].status = orders[sched.id].status]_vars

\* C28: every step that changes the status of an order leaves next_check_at
\* non-null only if the new status is pending and status_check_type is
\* polling; in particular every transition to a terminal status, on the
\* polling path and on the webhook path, leaves next_check_at null.
C28_NextCheckOnlyWhilePolled ==
  [][\A o \in DOMAIN orders :
       orders'[o].status # orders[o].status
         => (orders'[o].next_check_at # NoTime
               => /\ orders'[o].status = "pending"
                  /\ orders'[o].status_check_type = "polling")]_vars

\* C29: the retry budget counts failed provider queries only. A check that
\* the provider answered leaves check_attempts at the value it had before
\* the check (the loaded copy carries that value plus the one added when the
\* check began), and retry handling moves an order to failed only with
\* check_attempts above PAYMENT_ATTEMPTS_LIMIT.
C29_RetryBudgetCountsFailures ==
  [][/\ \A r \in ProviderStatuses :
          SchedCheckWith(r)
            => orders'[sched.id].check_attempts = sched.cur.check_attempts - 1
     /\ (/\ SchedCheckWith("error")
         /\ sched.cur.status = "pending"
         /\ orders'[sched.id].status = "failed")
          => sched.cur.check_attempts > PAYMENT_ATTEMPTS_LIMIT]_vars

\* C30 as stated: on the polling path the provider status
\* waiting_for_capture is treated like pending, the order stays pending and
\* next_check_at is rescheduled by the fast/slow policy.
C30_WaitingForCaptureStaysPending ==
  [][(/\ SchedCheckWith("waiting_for_capture")
      /\ sched.cur.status = "pending")
       => /\ orders'[sched.id].status = "pending"
          /\ orders'[sched.id].next_check_at =
               (IF now - sched.cur.payment_started_at <= FAST_TRACK_LIMIT_S
                THEN now + FAST_TRACK_INTERVAL_S
                ELSE now + SLOW_TRACK_INTERVAL_S)]_vars

\* C30 amended: on the polling path the provider status waiting_for_capture
\* moves a pending order to failed with a failed_presentation_desc and
\* next_check_at null; no make command is sent and the order is not
\* rescheduled.
C30_WaitingForCaptureFails ==
  [][(/\ SchedCheckWith("waiting_for_capture")
      /\ sched.cur.status = "pending")
       => /\ orders'[sched.id].status = "failed"
          /\ orders'[sched.id].failed_presentation_desc = DescManualConfirm
          /\ orders'[sched.id].failed_presentation_desc # NoDesc
          /\ orders'[sched.id].next_check_at = NoTime
          /\ makeCalls' = makeCalls
          /\ sched'.pc # "make"]_vars

\* a check answered waiting_for_capture has left an order failed
C30_Witness ==
  \E o \in DOMAIN orders :
    /\ orders[o].status = "failed"
    /\ orders[o].failed_presentation_desc = DescManualConfirm
    /\ orders[o].next_check_at = NoTime
    /\ orders[o].check_attempts >= 1
    /\ orders[o].last_check_at # NoTime

\* C31: for an order without payment_reference_id, or on a device whose
\* scenario has no automated status check, the check is a no-op: it is
\* skipped, retry handling is not invoked, and status, next_check_at and
\* failed_presentation_desc stay as they are.
C31_UncheckableIsNoOp ==
  [][\A r \in ProviderStatuses \cup {"error", "skip"} :
       (/\ SchedCheckWith(r)
        /\ (\/ sched.cur.payment_reference_id = NoRef
            \/ device[sched.id] # "Yookassa"))
         => /\ r = "skip"
            /\ orders'[sched.id].status = orders[sched.id].status
            /\ orders'[sched.id].next_check_at = orders[sched.id].next_check_at
            /\ orders'[sched.id].failed_presentation_desc
                 = orders[sched.id].failed_presentation_desc]_vars

\* C32: for a test device process_payment_flow bypasses the device check
\* only. When the id has no order or an order in status created that is not
\* expired, and the device check fails, the request ends as it would have
\* with the device online: an order in status created for the id and a
\* redirect. An expired existing order is still answered
\* with an error and left as it is.
C32_TestDeviceBypassesLiveness ==
  [][\A o \in OrderIds, hb \in Heartbeats \ {"online"} :
       /\ (/\ ProcessPaymentFlowWith(o, hb, TRUE, "ok")
           /\ orders[o].status \in {"absent", "created"}
           /\ check_order_existence(o, now).error = "none")
            => /\ orders'[o].status = "created"
               /\ resp'[o] = 302
       /\ (/\ ProcessPaymentFlowWith(o, hb, TRUE, "ok")
           /\ orders[o].status # "absent"
           /\ now > orders[o].expires_at)
            => /\ resp'[o] >= 400
               /\ orders' = orders]_vars

\* C33: when process_payment_flow receives the id of an order that is not
\* expired and in a status other than created, the validation chain reports
\* should_create_new_order and the request yields a fresh order in status
\* created for that id, not an error response.
C33_SupersededOrderReplaced ==
  [][\A o \in OrderIds, isTest \in BOOLEAN :
       (/\ ProcessPaymentFlowWith(o, "online", isTest, "ok")
        /\ orders[o].status \notin {"absent", "created"}
        /\ now <= orders[o].expires_at)
         => /\ execute_validation_chain(o, now, "online").should_create_new_order
            /\ orders'[o].status = "created"
            /\ orders'[o].payment_reference_id = NoRef
            /\ resp'[o] < 400]_vars

\* C34: no step lowers the stored check_attempts of an order, whatever the
\* interleaving of scheduler runs and initiate_payment calls on it.
C34_CheckAttemptsMonotone ==
  [][\A o \in DOMAIN orders :
       orders'[o].check_attempts >= orders[o].check_attempts]_vars

C36_UnknownStatusIgnored ==
  [][\A r \in ProviderStatuses \ {"pending", "waiting_for_capture", "succeeded", "canceled"} :
       SchedCheckWith(r)
         => /\ process_payment_status(sched.cur, r, now) = sched.cur
            /\ ~SendsMake(sched.cur, r, now)
            /\ orders' = orders
            /\ makeCalls' = makeCalls
            /\ sched'.pc # "make"]_vars

\* a run has ended after the provider answered for an order with a status
\* that is not known: the order is as the stamp left it, still due
C36_Witness ==
  \E o \in DOMAIN orders :
    /\ sched.pc = "idle"
    /\ device[o] = "Yookassa"
    /\ creds
    /\ orders[o].payment_reference_id # NoRef
    /\ orders[o].status = "pending"
    /\ orders[o].check_attempts >= 1
    /\ orders[o].next_check_at # NoTime
    /\ orders[o].next_check_at <= orders[o].last_check_at

\* C37: an order with status pending and status_check_type polling has a
\* next_check_at, so that the scheduler can select it.
C37_PolledOrderScheduled ==
  \A o \in OrderIds :
    (orders[o].status = "pending" /\ orders[o].status_check_type = "polling")
      => orders[o].next_check_at # NoTime

\* C38: when check_pending_payments has processed a loaded order, whatever
\* the check returned, the order is no longer pending or its next_check_at is
\* later than the run's now, so that a run at the same time does not select
\* it again.
C38_ProcessedNotDueAgain ==
  [][\A r \in ProviderStatuses \cup {"error", "skip"} :
       SchedCheckWith(r)
         => \/ orders'[sched.id].status # "pending"
            \/ /\ orders'[sched.id].next_check_at # NoTime
               /\ orders'[sched.id].next_check_at > sched.now]_vars

\* C39: no handler invocation ends with the order in status paid: the step
\* that ends an invocation after paid was written, in the scheduler and in
\* the webhook, leaves make_pending or make_failed, whatever the metadata of
\* the notification.
C39_PaidNeverLeft ==
  [][\A ok \in BOOLEAN :
       /\ SchedMakeWith(ok)
            => orders'[sched.id].status \in {"make_pending", "make_failed"}
       /\ WebhookMakeWith(ok)
            => orders'[wh.id].status \in {"make_pending", "make_failed"}]_vars

\* C40: once an order has a payment_reference_id no step replaces it with
\* another value.
C40_ReferenceNeverReplaced ==
  [][\A o \in DOMAIN orders :
       orders[o].payment_reference_id # NoRef
         => orders'[o].payment_reference_id = orders[o].payment_reference_id]_vars
====
